---- MODULE Spec2Model ----
\* Model of src/main.py: the two-station result collector.
\* Strings are sequences of one-character strings; a path is a sequence of
\* names (directory components followed by the file name).
EXTENDS Integers, Sequences, FiniteSets, TLC

\* ---------------------------------------------------------------- constants
\* Register indices of the two stations (main.py:21-22).
R_MARPOSS_CHECKED_ID == 6
R_KOGAME_CHECKED_ID == 5
\* Block size of get_data (main.py:163).
chunk_size == 1024

\* ---------------------------------------------------------------- bounds
\* The main loop is explored until the results log holds MaxRows rows.
MaxRows == 2
\* Part IDs a register may show: 0 ("no part") and two parts.
PartIds == {0, 5, 41}
\* The scenario of two stations moving to part 41 is explored with one of
\* ScenarioFiles result files in each station directory.
ScenarioFiles == 9
\* The reformatting of a record is explored on raw lines of up to MaxLine
\* characters.
MaxLine == 2
\* get_recently_changed_files on its own is explored on directories of up to
\* MaxWalk files.
MaxWalk == 3
\* get_data on its own is explored on files of up to MaxChunks blocks that
\* end in up to MaxTail characters of text, blanks and newlines.
MaxChunks == 2
MaxTail == 2

\* ---------------------------------------------------------------- strings
Whitespace == {" ", "\n", "\r", "\t"}

\* str.replace(old, new) for one-character old and new.
Replace(s, old, new) == [i \in 1..Len(s) |-> IF s[i] = old THEN new ELSE s[i]]

\* str.strip(): drop leading and trailing whitespace.
Strip(s) ==
  IF \A i \in 1..Len(s) : s[i] \in Whitespace THEN <<>>
  ELSE LET first == CHOOSE i \in 1..Len(s) :
                      s[i] \notin Whitespace /\ \A j \in 1..(i-1) : s[j] \in Whitespace
           last  == CHOOSE i \in 1..Len(s) :
                      s[i] \notin Whitespace /\ \A j \in (i+1)..Len(s) : s[j] \in Whitespace
       IN SubSeq(s, first, last)

\* str.split(sep): the list of fields between occurrences of sep.
RECURSIVE SplitFrom(_, _, _, _)
SplitFrom(s, sep, i, field) ==
  IF i > Len(s) THEN <<field>>
  ELSE IF s[i] = sep THEN <<field>> \o SplitFrom(s, sep, i + 1, <<>>)
  ELSE SplitFrom(s, sep, i + 1, Append(field, s[i]))

Split(s, sep) == SplitFrom(s, sep, 1, <<>>)

\* str.split("\n")[-1]: the text after the last newline.
LastLine(s) ==
  IF \A i \in 1..Len(s) : s[i] # "\n" THEN s
  ELSE LET nl == CHOOSE i \in 1..Len(s) :
                   s[i] = "\n" /\ \A j \in (i+1)..Len(s) : s[j] # "\n"
       IN SubSeq(s, nl + 1, Len(s))

\* str.lower() on the characters file names are made of.
LowerChar(c) ==
  CASE c = "C" -> "c" [] c = "S" -> "s" [] c = "V" -> "v"
    [] c = "M" -> "m" [] c = "K" -> "k" [] OTHER -> c

Lower(s) == [i \in 1..Len(s) |-> LowerChar(s[i])]

\* str.endswith(suffix)
EndsWith(s, suffix) ==
  /\ Len(s) >= Len(suffix)
  /\ SubSeq(s, Len(s) - Len(suffix) + 1, Len(s)) = suffix

\* os.path.basename: the last component of a path.
basename(path) == path[Len(path)]

\* ---------------------------------------------------------------- results
\* Outcome of a call: the exception it raised ("none" if it returned) and the
\* value it returned.
Returned(v) == [raised |-> "none", value |-> v]
Raised(e) == [raised |-> e, value |-> <<>>]

\* Python's None and an unbound local name, as values of a file variable.
None == [tag |-> "None"]
Unbound == [tag |-> "unbound"]
PathOf(p) == [tag |-> "path", path |-> p]

\* ---------------------------------------------------------------- dict
EmptyDict == [x \in {} |-> <<>>]
DictSet(d, key, v) == [x \in (DOMAIN d) \cup {key} |-> IF x = key THEN v ELSE d[x]]
DictDel(d, key) == [x \in (DOMAIN d) \ {key} |-> d[x]]

\* ---------------------------------------------------------------- registers
\* A register dump (registers.txt): whether the "OF Numeric Reg" header is in
\* it and, per register index, the text after the last "=" of that line.
RegText(n) == [numeric |-> TRUE, value |-> n]
Garbage == [numeric |-> FALSE, value |-> 0]
Dump(m, k) ==
  [header |-> TRUE,
   reg |-> (R_MARPOSS_CHECKED_ID :> m) @@ (R_KOGAME_CHECKED_ID :> k)]

\* The dumps the controller may present to a poll.
RegisterDumps ==
  {Dump(RegText(m), RegText(k)) : m \in PartIds, k \in PartIds}
    \cup {[header |-> FALSE, reg |-> Dump(RegText(0), RegText(0)).reg],
          Dump(Garbage, RegText(5))}

\* get_all_registers: the lines from the header on; without the header the
\* slice starts at the last character and holds one line only.
get_all_registers(dump) == IF dump.header THEN dump.reg ELSE (0 :> Garbage)

\* get_stations_ID: registers[6] and registers[5] parsed as integers.
get_stations_ID(dump) ==
  LET registers == get_all_registers(dump)
      R_IDs == <<R_MARPOSS_CHECKED_ID, R_KOGAME_CHECKED_ID>>
  IN IF \E i \in 1..2 : R_IDs[i] \notin DOMAIN registers
       THEN Raised("IndexError")
     ELSE IF \E i \in 1..2 : ~registers[R_IDs[i]].numeric
       THEN Raised("ValueError")
     ELSE Returned([i \in 1..2 |-> registers[R_IDs[i]].value])

\* The two IDs a well-formed dump shows.
MarpossRegister(dump) == dump.reg[R_MARPOSS_CHECKED_ID].value
KogameRegister(dump) == dump.reg[R_KOGAME_CHECKED_ID].value

\* ---------------------------------------------------------------- files
\* A station directory as os.walk meets it: the files in traversal order
\* (top-down: the files of a directory before those of its subdirectories),
\* each with its path, modification time, whether it can be opened, and its
\* content.
File(path, mtime, readable, content) ==
  [path |-> path, mtime |-> mtime, readable |-> readable, content |-> content]

csv == <<".", "c", "s", "v">>

\* Mutant: the extension is compared without lower().
RECURSIVE WalkFrom_NoLower(_, _, _)
WalkFrom_NoLower(tree, i, recent_file) ==
  IF i > Len(tree) THEN recent_file
  ELSE LET f == tree[i]
       IN IF /\ EndsWith(basename(f.path), csv)
             /\ (recent_file = 0 \/ f.mtime > tree[recent_file].mtime)
          THEN WalkFrom_NoLower(tree, i + 1, i)
          ELSE WalkFrom_NoLower(tree, i + 1, recent_file)

\* Mutant: ">=" instead of ">", a later file of equal mtime replaces the
\* one found before.
RECURSIVE WalkFrom_LaterOfEqual(_, _, _)
WalkFrom_LaterOfEqual(tree, i, recent_file) ==
  IF i > Len(tree) THEN recent_file
  ELSE LET f == tree[i]
       IN IF /\ EndsWith(Lower(basename(f.path)), csv)
             /\ (recent_file = 0 \/ f.mtime >= tree[recent_file].mtime)
          THEN WalkFrom_LaterOfEqual(tree, i + 1, i)
          ELSE WalkFrom_LaterOfEqual(tree, i + 1, recent_file)

\* get_recently_changed_files: the .csv file with the greatest mtime, the
\* first of several with that mtime; None without a .csv file.
RECURSIVE WalkFrom(_, _, _)
WalkFrom(tree, i, recent_file) ==
  IF i > Len(tree) THEN recent_file
  ELSE LET f == tree[i]
       IN IF /\ EndsWith(Lower(basename(f.path)), csv)
             /\ (recent_file = 0 \/ f.mtime > tree[recent_file].mtime)
          THEN WalkFrom(tree, i + 1, i)
          ELSE WalkFrom(tree, i + 1, recent_file)

get_recently_changed_files(tree) ==
  LET recent_file == WalkFrom(tree, 1, 0)
  IN IF recent_file = 0 THEN None ELSE PathOf(tree[recent_file].path)

Min(a, b) == IF a < b THEN a ELSE b

\* The loop of get_data: read num_chunks blocks of chunk_size characters,
\* the last one cut to file_size % chunk_size characters.
RECURSIVE ReadChunks(_, _, _, _)
ReadChunks(content, i, num_chunks, data) ==
  IF i >= num_chunks THEN data
  ELSE LET file_size == Len(content)
           read == SubSeq(content, i * chunk_size + 1,
                          Min((i + 1) * chunk_size, file_size))
           chunk == IF i = num_chunks - 1
                      THEN SubSeq(read, 1, Min(Len(read), file_size % chunk_size))
                      ELSE read
       IN ReadChunks(content, i + 1, num_chunks, data \o chunk)

\* get_data on an opened file's content.
TailLine(content) ==
  LET file_size == Len(content)
      num_chunks == (file_size \div chunk_size)
                      + (IF file_size % chunk_size > 0 THEN 1 ELSE 0)
      data == ReadChunks(content, 0, num_chunks, <<>>)
  IN LastLine(Strip(data))

\* get_data(file_path) in the directory tree: open() raises TypeError for
\* None and OSError for a file that cannot be opened.
get_data(tree, file_path) ==
  IF file_path.tag # "path" THEN Raised("TypeError")
  ELSE LET f == CHOOSE e \in {tree[i] : i \in 1..Len(tree)} : e.path = file_path.path
       IN IF ~f.readable THEN Raised("OSError")
          ELSE Returned(TailLine(f.content))

\* Mutant: the IOError is swallowed ("except IOError: pass").
save_results_to_csv_Swallows(log, res_line, writable) ==
  IF ~writable THEN Returned(log)
  ELSE Returned(Append(log, Split(res_line, ";")))

\* Mutant: result.csv is opened with mode "w", which truncates it.
save_results_to_csv_Truncates(log, res_line, writable) ==
  IF ~writable THEN Raised("IOError")
  ELSE Returned(<<Split(res_line, ";")>>)

\* save_results_to_csv: the row written is res_line split on ";"; a failed
\* open or write is raised again as IOError.
save_results_to_csv(log, res_line, writable) ==
  IF ~writable THEN Raised("IOError")
  ELSE Returned(Append(log, Split(res_line, ";")))

\* ---------------------------------------------------------------- config
\* An option of the [Settings] section: absent, or present with a value.
Missing == [present |-> FALSE, value |-> <<>>]
Option(v) == [present |-> TRUE, value |-> v]

\* config.ini: absent, or a file with the three options.
NoFile == [exists |-> FALSE, marposs |-> Missing, kogame |-> Missing, ip |-> Missing]
ConfigFile(m, k, i) == [exists |-> TRUE, marposs |-> m, kogame |-> k, ip |-> i]

\* DEFAULT_CONFIG, as create_raw_config_file writes it.
DEFAULT_CONFIG ==
  ConfigFile(Option(<<>>), Option(<<>>), Option(<<"h", "t", "t", "p", ":", "/", "/", "r">>))

NUMREG == <<"/", "M", "D", "/", "N", "U", "M", "R", "E", "G", ".", "V", "A">>

\* Mutant: no test for empty paths (lines 70-71 left out).
get_config_NoEmptyCheck(file) ==
  IF ~file.exists THEN Raised("SystemExit")
  ELSE IF ~file.marposs.present \/ ~file.kogame.present \/ ~file.ip.present
    THEN Raised("ValueError")
  ELSE Returned(<<file.marposs.value, file.kogame.value, file.ip.value \o NUMREG>>)

\* get_config: SystemExit after writing the default file when config.ini is
\* absent; ValueError for a missing option or an empty path.
get_config(file) ==
  IF ~file.exists THEN Raised("SystemExit")
  ELSE IF ~file.marposs.present \/ ~file.kogame.present \/ ~file.ip.present
    THEN Raised("ValueError")
  ELSE IF file.marposs.value = <<>> \/ file.kogame.value = <<>>
    THEN Raised("ValueError")
  ELSE Returned(<<file.marposs.value, file.kogame.value, file.ip.value \o NUMREG>>)

\* str.replace('"', "")
RECURSIVE RemoveQuotes(_)
RemoveQuotes(s) ==
  IF s = <<>> THEN <<>>
  ELSE IF Head(s) = "\"" THEN RemoveQuotes(Tail(s))
  ELSE <<Head(s)>> \o RemoveQuotes(Tail(s))

\* validate_paths: ValueError for the first path that does not exist;
\* pathlib.Path("") is the current directory, which exists.
validate_paths(paths, existing) ==
  IF \E i \in 1..Len(paths) : RemoveQuotes(paths[i]) \notin existing \cup {<<>>}
    THEN Raised("ValueError")
  ELSE Returned(<<>>)

\* ---------------------------------------------------------------- environment
\* Values an option of config.ini may have, and the directories on disk.
MarpossDir == <<"m">>
KogameDir == <<"k">>
OptionValues(v) == {Missing, Option(<<>>), Option(v)}
Address == <<"h">>
ConfigFiles ==
  {NoFile} \cup
  {ConfigFile(m, k, i) : m \in OptionValues(MarpossDir),
                         k \in OptionValues(KogameDir),
                         i \in OptionValues(Address)}

\* Result files of a station: two files with one result line each, the
\* second in a subdirectory, with an upper-case extension and a header line.
Line1(dir) == IF dir = MarpossDir THEN <<"1", ".", "5", ",", "A">> ELSE <<"3", ",", "P">>
Line2(dir) == IF dir = MarpossDir THEN <<"2", ".", "5", ",", "B">> ELSE <<"4", ",", "F">>
File1(dir, readable) ==
  File(<<dir, dir \o <<"1">> \o csv>>, 1, readable, Line1(dir) \o <<"\n">>)
File2(dir) ==
  File(<<dir, <<"s">>, dir \o <<"2", ".", "C", "S", "V">>>>, 2, TRUE,
       <<"h", "\n">> \o Line2(dir) \o <<"\n", "\n">>)
Notes(dir) == File(<<dir, <<"n", ".", "t", "x", "t">>>>, 3, TRUE, <<"x">>)

\* The states of a station directory a poll may meet.
Trees(dir) ==
  { <<Notes(dir)>>,
    <<File1(dir, TRUE), Notes(dir)>>,
    <<File1(dir, FALSE)>>,
    <<File1(dir, TRUE), File2(dir)>> }

\* Lines 211-212 and 218-219 on a directory: the file located and the
\* outcome of get_data on it.
Reading(tree) ==
  LET latest == get_recently_changed_files(tree)
  IN [latest |-> latest, got |-> get_data(tree, latest)]

MarpossReadings == {Reading(t) : t \in Trees(MarpossDir)}
KogameReadings == {Reading(t) : t \in Trees(KogameDir)}

\* datetime.now() formatted; one instant stands for all.
Clock == { <<"2", "0", "2", "6", "-", "0", "1", "-", "0", "1", " ",
             "0", "0", ":", "0", "0", ":", "0", "0">> }

\* ---------------------------------------------------------------- state
VARIABLES
  pc,                  \* position: "get_config", "validate_paths", "startup",
                       \* "loop", or "exited" / "crashed" once the process ended
  raised,              \* the exception that ended the process, or "none"
  config_file,         \* config.ini on disk
  directories,         \* the directories that exist on disk
  paths,               \* <<MARPOSS_PATH, KOGAME_PATH, IP>> once get_config returned
  registers,           \* the register dump the latest poll read
  last_marposs_id,
  last_kogame_id,
  marposs_values,
  kogame_values,
  marposs_latest_file,
  kogame_latest_file,
  result_file,         \* result.csv: the rows written so far
  emitted,             \* per row of result_file, the part ID it was paired for
  tail_file,           \* the content of a file handed to get_data on its own
  tail_line,           \* what get_data returned for tail_file
  walk_tree,           \* a directory handed to get_recently_changed_files on its own
  walk_result          \* what get_recently_changed_files returned for walk_tree

vars ==
  <<pc, raised, config_file, directories, paths, registers, last_marposs_id,
    last_kogame_id, marposs_values, kogame_values, marposs_latest_file,
    kogame_latest_file, result_file, emitted, tail_file, tail_line,
    walk_tree, walk_result>>

loop_vars ==
  <<last_marposs_id, last_kogame_id, marposs_values, kogame_values,
    marposs_latest_file, kogame_latest_file, result_file, emitted>>

\* The state at line 194, for the config.ini files in `files`.
InitWith(files) ==
  /\ pc = "get_config"
  /\ raised = "none"
  /\ config_file \in files
  /\ directories \in SUBSET {MarpossDir, KogameDir}
  /\ paths = <<>>
  /\ registers = Dump(RegText(0), RegText(0))
  /\ last_marposs_id = 0
  /\ last_kogame_id = 0
  /\ marposs_values = EmptyDict
  /\ kogame_values = EmptyDict
  /\ marposs_latest_file = Unbound
  /\ kogame_latest_file = Unbound
  /\ result_file = <<>>
  /\ emitted = <<>>
  /\ tail_file = <<>>
  /\ tail_line = Unbound
  /\ walk_tree = <<>>
  /\ walk_result = Unbound

\* An exception no handler catches ends the process; sys.exit() ends it too.
Terminate(e) ==
  /\ pc' = IF e = "SystemExit" THEN "exited" ELSE "crashed"
  /\ raised' = e

\* ---------------------------------------------------------------- startup
\* main.py:196, with create_raw_config_file when config.ini is absent.
GetConfig ==
  /\ pc = "get_config"
  /\ LET got == get_config(config_file)
     IN IF got.raised # "none"
        THEN /\ Terminate(got.raised)
             /\ config_file' = IF got.raised = "SystemExit"
                                 THEN DEFAULT_CONFIG ELSE config_file
             /\ UNCHANGED paths
        ELSE /\ pc' = "validate_paths"
             /\ paths' = got.value
             /\ UNCHANGED <<raised, config_file>>
  /\ UNCHANGED <<directories, registers, loop_vars, tail_file, tail_line,
                 walk_tree, walk_result>>

\* main.py:197
ValidatePaths ==
  /\ pc = "validate_paths"
  /\ LET got == validate_paths(<<paths[1], paths[2]>>, directories)
     IN IF got.raised # "none"
        THEN Terminate(got.raised)
        ELSE pc' = "startup" /\ UNCHANGED raised
  /\ UNCHANGED <<config_file, directories, paths, registers, loop_vars,
                 tail_file, tail_line, walk_tree, walk_result>>

\* main.py:201-202: poll until one of the two IDs is not 0.
StartupPoll ==
  /\ pc = "startup"
  /\ \E dump \in RegisterDumps :
       /\ registers' = dump
       /\ LET got == get_stations_ID(dump)
          IN IF got.raised # "none"
             THEN /\ Terminate(got.raised)
                  /\ UNCHANGED <<last_marposs_id, last_kogame_id>>
             ELSE /\ last_marposs_id' = got.value[1]
                  /\ last_kogame_id' = got.value[2]
                  /\ pc' = IF got.value[1] = 0 /\ got.value[2] = 0
                             THEN "startup" ELSE "loop"
                  /\ UNCHANGED raised
  /\ UNCHANGED <<config_file, directories, paths, marposs_values, kogame_values,
                 marposs_latest_file, kogame_latest_file, result_file, emitted,
                 tail_file, tail_line, walk_tree, walk_result>>

\* ---------------------------------------------------------------- main loop
\* The locals and globals of one pass of the main loop, with the exception
\* raised in it so far.
LoopState ==
  [last_marposs_id |-> last_marposs_id, last_kogame_id |-> last_kogame_id,
   marposs_values |-> marposs_values, kogame_values |-> kogame_values,
   marposs_latest_file |-> marposs_latest_file,
   kogame_latest_file |-> kogame_latest_file,
   result_file |-> result_file, emitted |-> emitted, raised |-> "none"]

\* Mutant: the test without "and id != 0".
IdChanged_NoZeroTest(current_id, last_id) == current_id # last_id

\* The test of lines 210 and 217: the ID differs from the last one seen and
\* is not 0.
IdChanged(current_id, last_id) == current_id # last_id /\ current_id # 0

\* Mutant: the result is stored in a fresh dict, dropping the entries
\* that were pending.
MarpossCheck_Replaces(s, marposs_id, reading) ==
  IF s.raised # "none" THEN s
  ELSE IF IdChanged(marposs_id, s.last_marposs_id)
    THEN IF reading.got.raised # "none"
           THEN [s EXCEPT !.marposs_latest_file = reading.latest,
                          !.raised = reading.got.raised]
         ELSE [s EXCEPT !.marposs_latest_file = reading.latest,
                        !.marposs_values = DictSet(EmptyDict, marposs_id, reading.got.value),
                        !.last_marposs_id = marposs_id]
  ELSE s

\* Mutant: dict.setdefault instead of assignment, an entry already pending
\* for the ID is kept.
MarpossCheck_KeepsFirst(s, marposs_id, reading) ==
  IF s.raised # "none" THEN s
  ELSE IF IdChanged(marposs_id, s.last_marposs_id)
    THEN IF reading.got.raised # "none"
           THEN [s EXCEPT !.marposs_latest_file = reading.latest,
                          !.raised = reading.got.raised]
         ELSE [s EXCEPT !.marposs_latest_file = reading.latest,
                        !.marposs_values =
                          IF marposs_id \in DOMAIN @ THEN @
                          ELSE DictSet(@, marposs_id, reading.got.value),
                        !.last_marposs_id = marposs_id]
  ELSE s

\* main.py:210-214
MarpossCheck(s, marposs_id, reading) ==
  IF s.raised # "none" THEN s
  ELSE IF IdChanged(marposs_id, s.last_marposs_id)
    THEN LET latest == reading.latest
             got == reading.got
         IN IF got.raised # "none"
            THEN [s EXCEPT !.marposs_latest_file = latest, !.raised = got.raised]
            ELSE [s EXCEPT !.marposs_latest_file = latest,
                           !.marposs_values = DictSet(@, marposs_id, got.value),
                           !.last_marposs_id = marposs_id]
  ELSE s

\* Mutant: last_kogame_id is assigned after the if, in every pass.
KogameCheck_AlwaysAdopts(s, kogame_id, reading) ==
  IF s.raised # "none" THEN s
  ELSE IF IdChanged(kogame_id, s.last_kogame_id)
    THEN IF reading.got.raised # "none"
           THEN [s EXCEPT !.kogame_latest_file = reading.latest,
                          !.raised = reading.got.raised]
         ELSE [s EXCEPT !.kogame_latest_file = reading.latest,
                        !.kogame_values = DictSet(@, kogame_id, reading.got.value),
                        !.last_kogame_id = kogame_id]
  ELSE [s EXCEPT !.last_kogame_id = kogame_id]

\* main.py:217-221
KogameCheck(s, kogame_id, reading) ==
  IF s.raised # "none" THEN s
  ELSE IF IdChanged(kogame_id, s.last_kogame_id)
    THEN LET latest == reading.latest
             got == reading.got
         IN IF got.raised # "none"
            THEN [s EXCEPT !.kogame_latest_file = latest, !.raised = got.raised]
            ELSE [s EXCEPT !.kogame_latest_file = latest,
                           !.kogame_values = DictSet(@, kogame_id, got.value),
                           !.last_kogame_id = kogame_id]
  ELSE s

\* Mutant: result_line is saved instead of result, without the timestamp.
ComposeResult_NoTimestamp(kogame_line, marposs_line, kogame_file, marposs_file, now) ==
  Replace(Replace(kogame_line \o <<";">> \o marposs_line, ",", ";"), ".", ",")
    \o <<";">> \o basename(kogame_file.path) \o <<";">> \o basename(marposs_file.path)

\* Mutant: the two replace calls in the other order, "." to "," first.
ComposeResult_DotsFirst(kogame_line, marposs_line, kogame_file, marposs_file, now) ==
  now \o <<";">>
      \o Replace(Replace(kogame_line \o <<";">> \o marposs_line, ".", ","), ",", ";")
      \o <<";">> \o basename(kogame_file.path) \o <<";">> \o basename(marposs_file.path)

\* main.py:226-234: the line handed to save_results_to_csv.
ComposeResult(kogame_line, marposs_line, kogame_file, marposs_file, now) ==
  LET result_line == kogame_line \o <<";">> \o marposs_line
      reformatted == Replace(Replace(result_line, ",", ";"), ".", ",")
  IN now \o <<";">> \o reformatted \o <<";">> \o basename(kogame_file.path)
         \o <<";">> \o basename(marposs_file.path)

\* Mutant: the Marposs line is read with marposs_values[kogame_id] and
\* stays in the dict.
Pairing_KeepsMarposs(s, kogame_id, now, writable) ==
  IF s.raised # "none" THEN s
  ELSE IF kogame_id \in DOMAIN s.marposs_values
    THEN IF kogame_id \notin DOMAIN s.kogame_values
           THEN [s EXCEPT !.raised = "KeyError"]
         ELSE LET popped == [s EXCEPT !.kogame_values = DictDel(@, kogame_id)]
              IN IF s.kogame_latest_file.tag # "path" \/ s.marposs_latest_file.tag # "path"
                   THEN [popped EXCEPT !.raised = "NameError"]
                 ELSE LET result == ComposeResult(s.kogame_values[kogame_id],
                                                  s.marposs_values[kogame_id],
                                                  s.kogame_latest_file,
                                                  s.marposs_latest_file, now)
                          saved == save_results_to_csv(s.result_file, result, writable)
                      IN IF saved.raised # "none"
                           THEN [popped EXCEPT !.raised = saved.raised]
                         ELSE [popped EXCEPT !.result_file = saved.value,
                                             !.emitted = Append(@, kogame_id)]
  ELSE s

\* main.py:222-236: kogame_values.pop comes first and raises KeyError
\* without the key; a file variable never assigned raises NameError.
Pairing(s, kogame_id, now, writable) ==
  IF s.raised # "none" THEN s
  ELSE IF kogame_id \in DOMAIN s.marposs_values
    THEN IF kogame_id \notin DOMAIN s.kogame_values
           THEN [s EXCEPT !.raised = "KeyError"]
         ELSE LET popped == [s EXCEPT !.kogame_values = DictDel(@, kogame_id),
                                      !.marposs_values = DictDel(@, kogame_id)]
              IN IF s.kogame_latest_file.tag # "path" \/ s.marposs_latest_file.tag # "path"
                   THEN [popped EXCEPT !.raised = "NameError"]
                 ELSE LET result == ComposeResult(s.kogame_values[kogame_id],
                                                  s.marposs_values[kogame_id],
                                                  s.kogame_latest_file,
                                                  s.marposs_latest_file, now)
                          saved == save_results_to_csv(s.result_file, result, writable)
                      IN IF saved.raised # "none"
                           THEN [popped EXCEPT !.raised = saved.raised]
                         ELSE [popped EXCEPT !.result_file = saved.value,
                                             !.emitted = Append(@, kogame_id)]
  ELSE s

\* The variables after a pass that left the locals and globals s; an
\* exception raised in the pass ends the process.
Commit(dump, s) ==
  /\ registers' = dump
  /\ last_marposs_id' = s.last_marposs_id
  /\ last_kogame_id' = s.last_kogame_id
  /\ marposs_values' = s.marposs_values
  /\ kogame_values' = s.kogame_values
  /\ marposs_latest_file' = s.marposs_latest_file
  /\ kogame_latest_file' = s.kogame_latest_file
  /\ result_file' = s.result_file
  /\ emitted' = s.emitted
  /\ IF s.raised # "none"
       THEN Terminate(s.raised)
       ELSE UNCHANGED <<pc, raised>>
  /\ UNCHANGED <<config_file, directories, paths, tail_file, tail_line,
                 walk_tree, walk_result>>

\* A station directory is read only by a pass that finds the station's ID
\* changed; otherwise the pass reads nothing of it.
NotRead == [latest |-> None, got |-> Raised("NotRead")]
Consulted(current_id, last_id, readings) ==
  IF IdChanged(current_id, last_id) THEN readings ELSE {NotRead}

\* result.csv is opened only by a pass that gets to the pairing.
Opened(s, kogame_id, sinks) ==
  IF s.raised = "none" /\ kogame_id \in DOMAIN s.marposs_values THEN sinks ELSE {TRUE}

\* One pass of the body of "while True" (main.py:207-237) on the inputs it
\* reads in turn: the register dump, the Marposs directory, the Kogame
\* directory, the clock and whether result.csv can be written.
Pass(dumps, marposs_readings, kogame_readings, sinks) ==
  \E dump \in dumps, now \in Clock :
  \E ids \in {get_stations_ID(dump)} :
    IF ids.raised # "none"
    THEN Commit(dump, [LoopState EXCEPT !.raised = ids.raised])
    ELSE
      \E marposs_reading \in Consulted(ids.value[1], last_marposs_id, marposs_readings) :
      \E checked_marposs \in {MarpossCheck(LoopState, ids.value[1], marposs_reading)} :
      \E kogame_reading \in Consulted(ids.value[2], last_kogame_id, kogame_readings) :
      \E checked_kogame \in {KogameCheck(checked_marposs, ids.value[2], kogame_reading)} :
      \E writable \in Opened(checked_kogame, ids.value[2], sinks) :
        Commit(dump, Pairing(checked_kogame, ids.value[2], now, writable))

\* The main loop step, explored while the results log holds fewer than
\* `rows` rows.
LoopUntil(rows) ==
  /\ pc = "loop"
  /\ Len(result_file) < rows
  /\ Pass(RegisterDumps, MarpossReadings, KogameReadings, BOOLEAN)

\* The exploration stops at MaxRows rows.
MainLoop == LoopUntil(MaxRows)

Next == GetConfig \/ ValidatePaths \/ StartupPoll \/ MainLoop

\* The program started with a config.ini whose ip option, if present, is filled in.
Init == InitWith({f \in ConfigFiles : f.ip # Option(<<>>)})
Spec == Init /\ [][Next]_vars

\* The program started with any config.ini, an empty ip option included,
\* and followed until the first row is written.
InitConfig == InitWith(ConfigFiles)
FirstRow == LoopUntil(1)
NextConfig == GetConfig \/ ValidatePaths \/ StartupPoll \/ FirstRow
SpecConfig == InitConfig /\ [][NextConfig]_vars

\* ---------------------------------------------------------------- scenario
\* Two stations that last showed parts 6 and 5 move to part 41; each station
\* directory holds one .csv file with a one-line result.
Digit(n) == <<"1", "2", "3", "4", "5", "6", "7", "8", "9", "x", "y", "z">>[n]
ScenarioLine(dir, n) ==
  IF dir = MarpossDir THEN <<Digit(n), ".", "5", ",", "A">> ELSE <<Digit(n), ",", "P">>
ScenarioName(dir, n) == dir \o <<Digit(n)>> \o csv
ScenarioFile(dir, n) ==
  File(<<dir, ScenarioName(dir, n)>>, n, TRUE, ScenarioLine(dir, n) \o <<"\n">>)
ScenarioMarpossReadings == {Reading(<<ScenarioFile(MarpossDir, n)>>) : n \in 1..ScenarioFiles}
ScenarioKogameReadings == {Reading(<<ScenarioFile(KogameDir, n)>>) : n \in 1..ScenarioFiles}
InstalledConfig == ConfigFile(Option(MarpossDir), Option(KogameDir), Option(Address))

\* The loop just entered, the startup poll having read 6 and 5.
InitScenario ==
  /\ pc = "loop"
  /\ raised = "none"
  /\ config_file = InstalledConfig
  /\ directories = {MarpossDir, KogameDir}
  /\ paths = get_config(InstalledConfig).value
  /\ \E a \in {5, 6}, b \in {5, 6} :
       /\ a # b
       /\ registers = Dump(RegText(a), RegText(b))
       /\ last_marposs_id = a
       /\ last_kogame_id = b
  /\ marposs_values = EmptyDict
  /\ kogame_values = EmptyDict
  /\ marposs_latest_file = Unbound
  /\ kogame_latest_file = Unbound
  /\ result_file = <<>>
  /\ emitted = <<>>
  /\ tail_file = <<>>
  /\ tail_line = Unbound
  /\ walk_tree = <<>>
  /\ walk_result = Unbound

\* A pass in which each register shows what it showed before or 41, and
\* result.csv can be written.
ScenarioPass ==
  /\ pc = "loop"
  /\ Pass({Dump(RegText(m), RegText(k)) : m \in {MarpossRegister(registers), 41},
                                          k \in {KogameRegister(registers), 41}},
          ScenarioMarpossReadings, ScenarioKogameReadings, {TRUE})

NextScenario == ScenarioPass
SpecScenario == InitScenario /\ [][NextScenario]_vars

\* ---------------------------------------------------------------- raw lines
\* The scenario of the two stations moving to part 41, each station
\* directory holding one .csv file whose result line is any text of up to
\* MaxLine characters out of ",", ".", ";" and "a", or one of the lines
\* "12.5,OK" and "3,PASS". The file is named after its line.
RawChars == {",", ".", ";", "a"}
SampleLines ==
  { <<"1", "2", ".", "5", ",", "O", "K">>, <<"3", ",", "P", "A", "S", "S">> }
RawLines == UNION {[1..n -> RawChars] : n \in 0..MaxLine} \cup SampleLines
NameChar(c) == CASE c = "," -> "c" [] c = "." -> "d" [] c = ";" -> "s" [] OTHER -> c
RawName(line) == [i \in 1..Len(line) |-> NameChar(line[i])] \o csv
RawFile(dir, line) == File(<<dir, RawName(line)>>, 1, TRUE, line \o <<"\n">>)
RawMarpossReadings == {Reading(<<RawFile(MarpossDir, line)>>) : line \in RawLines}
RawKogameReadings == {Reading(<<RawFile(KogameDir, line)>>) : line \in RawLines}

RawPass ==
  /\ pc = "loop"
  /\ Pass({Dump(RegText(m), RegText(k)) : m \in {MarpossRegister(registers), 41},
                                          k \in {KogameRegister(registers), 41}},
          RawMarpossReadings, RawKogameReadings, {TRUE})

NextRaw == RawPass
SpecRaw == InitScenario /\ [][NextRaw]_vars

\* ---------------------------------------------------------------- second result
\* A station stores a second result for a part whose first result is still
\* pending. The loop is entered with the first result stored: Marposs holds
\* line 1 for part 5 and Kogame has shown 41 only, or the other way round.
\* Every register read succeeds, every directory holds a readable .csv file
\* and result.csv can be written.
ReadableTrees(dir) == {t \in Trees(dir) : Reading(t).got.raised = "none"}
RewriteMarpossReadings == {Reading(t) : t \in ReadableTrees(MarpossDir)}
RewriteKogameReadings == {Reading(t) : t \in ReadableTrees(KogameDir)}
WellFormedDumps == {d \in RegisterDumps : get_stations_ID(d).raised = "none"}

InitRewrite ==
  /\ pc = "loop"
  /\ raised = "none"
  /\ config_file = InstalledConfig
  /\ directories = {MarpossDir, KogameDir}
  /\ paths = get_config(InstalledConfig).value
  /\ result_file = <<>>
  /\ emitted = <<>>
  /\ tail_file = <<>>
  /\ tail_line = Unbound
  /\ walk_tree = <<>>
  /\ walk_result = Unbound
  /\ \/ /\ registers = Dump(RegText(5), RegText(41))
        /\ last_marposs_id = 5
        /\ last_kogame_id = 41
        /\ marposs_values = DictSet(EmptyDict, 5, Line1(MarpossDir))
        /\ kogame_values = EmptyDict
        /\ marposs_latest_file = PathOf(File1(MarpossDir, TRUE).path)
        /\ kogame_latest_file = Unbound
     \/ /\ registers = Dump(RegText(41), RegText(5))
        /\ last_marposs_id = 41
        /\ last_kogame_id = 5
        /\ marposs_values = EmptyDict
        /\ kogame_values = DictSet(EmptyDict, 5, Line1(KogameDir))
        /\ marposs_latest_file = Unbound
        /\ kogame_latest_file = PathOf(File1(KogameDir, TRUE).path)

\* Followed until the first record is written.
RewritePass ==
  /\ pc = "loop"
  /\ result_file = <<>>
  /\ Pass(WellFormedDumps, RewriteMarpossReadings, RewriteKogameReadings, {TRUE})

NextRewrite == RewritePass
SpecRewrite == InitRewrite /\ [][NextRewrite]_vars

\* ---------------------------------------------------------------- locator
\* get_recently_changed_files called on its own on a directory of bounded
\* content: files directly in it or three levels down, with names that end
\* in .csv in lower or mixed case or do not, and one of two modification
\* times.
WalkNames ==
  { <<"a", ".", "c", "s", "v">>, <<"b", ".", "C", "s", "V">>,
    <<"n", ".", "t", "x", "t">>, <<"c", "s", "v">> }
WalkDirs == { <<MarpossDir>>, <<MarpossDir, <<"s">>, <<"t">>, <<"u">>>> }
WalkMtimes == {1, 2}
WalkFiles ==
  {File(d \o <<n>>, t, TRUE, <<>>) : d \in WalkDirs, n \in WalkNames, t \in WalkMtimes}
\* os.walk is top-down and meets every file once: no path twice, and no
\* file of a subdirectory before a file of the directory above it.
WalkOrder(tree) ==
  \A i \in 1..Len(tree), j \in 1..Len(tree) :
    i < j => (tree[i].path # tree[j].path /\ Len(tree[i].path) <= Len(tree[j].path))
WalkTrees ==
  {tree \in UNION {[1..n -> WalkFiles] : n \in 0..MaxWalk} : WalkOrder(tree)}

InitWalk ==
  /\ pc = "get_recently_changed_files"
  /\ raised = "none"
  /\ config_file = InstalledConfig
  /\ directories = {MarpossDir, KogameDir}
  /\ paths = get_config(InstalledConfig).value
  /\ registers = Dump(RegText(0), RegText(0))
  /\ last_marposs_id = 0
  /\ last_kogame_id = 0
  /\ marposs_values = EmptyDict
  /\ kogame_values = EmptyDict
  /\ marposs_latest_file = Unbound
  /\ kogame_latest_file = Unbound
  /\ result_file = <<>>
  /\ emitted = <<>>
  /\ tail_file = <<>>
  /\ tail_line = Unbound
  /\ walk_tree \in WalkTrees
  /\ walk_result = Unbound

\* The call get_recently_changed_files(path) on the directory walk_tree.
Walk ==
  /\ pc = "get_recently_changed_files"
  /\ walk_result' = get_recently_changed_files(walk_tree)
  /\ pc' = "returned"
  /\ UNCHANGED <<raised, config_file, directories, paths, registers, loop_vars,
                 tail_file, tail_line, walk_tree>>

NextWalk == Walk
SpecWalk == InitWalk /\ [][NextWalk]_vars

\* ---------------------------------------------------------------- tail reader
\* get_data called on its own on a file of bounded content: an optional
\* header line, a run of "a", and an ending of text, blanks and newlines.
Pad(n) == [i \in 1..n |-> "a"]
TailChars == {"b", " ", "\n"}
TailEndings == UNION {[1..n -> TailChars] : n \in 0..MaxTail}
PadLengths == {0} \cup {c * chunk_size - d : c \in 1..MaxChunks, d \in 0..(MaxTail + 2)}
TailContents ==
  {h \o Pad(n) \o t : h \in {<<>>, <<"h", "\n">>}, n \in PadLengths, t \in TailEndings}

InitTail ==
  /\ pc = "get_data"
  /\ raised = "none"
  /\ config_file = InstalledConfig
  /\ directories = {MarpossDir, KogameDir}
  /\ paths = get_config(InstalledConfig).value
  /\ registers = Dump(RegText(0), RegText(0))
  /\ last_marposs_id = 0
  /\ last_kogame_id = 0
  /\ marposs_values = EmptyDict
  /\ kogame_values = EmptyDict
  /\ marposs_latest_file = Unbound
  /\ kogame_latest_file = Unbound
  /\ result_file = <<>>
  /\ emitted = <<>>
  /\ tail_file \in TailContents
  /\ tail_line = Unbound
  /\ walk_tree = <<>>
  /\ walk_result = Unbound

\* The call get_data(file_path) on a readable file holding tail_file.
ReadTail ==
  /\ pc = "get_data"
  /\ tail_line' = Returned(TailLine(tail_file))
  /\ pc' = "returned"
  /\ UNCHANGED <<raised, config_file, directories, paths, registers, loop_vars,
                 tail_file, walk_tree, walk_result>>

NextTail == ReadTail
SpecTail == InitTail /\ [][NextTail]_vars

\* ---------------------------------------------------------------- claims
\* Vocabulary of the claims: what a pass read and did, seen in a step.
NonZeroIds == PartIds \ {0}
ReadOk(dump) == get_stations_ID(dump).raised = "none"
MarpossReg(dump) == get_stations_ID(dump).value[1]
KogameReg(dump) == get_stations_ID(dump).value[2]
\* A pass of the main loop that read the registers and ran to its end.
CompletedPass == pc = "loop" /\ pc' = "loop" /\ ReadOk(registers')
\* The pass stored a pending result for x at the station.
MarpossStored(x) ==
  /\ pc = "loop" /\ ReadOk(registers') /\ MarpossReg(registers') = x
  /\ last_marposs_id # x /\ last_marposs_id' = x
KogameStored(x) ==
  /\ pc = "loop" /\ ReadOk(registers') /\ KogameReg(registers') = x
  /\ last_kogame_id # x /\ last_kogame_id' = x
\* The pass appended a record for x to the results log.
Appended(x) ==
  /\ Len(result_file') = Len(result_file) + 1
  /\ emitted' = Append(emitted, x)

\* C1 (as claimed): for every non-zero ID x and either order of the two
\* stations, a pass that completes with both stations' results for x stored
\* (the second stored in this pass, the first in this pass or pending from an
\* earlier one) appends exactly one record for x and leaves x in neither
\* pending map.
C1_PairsEitherOrder ==
  [][\A x \in NonZeroIds :
       ( /\ CompletedPass
         /\ \/ KogameStored(x) /\ (x \in DOMAIN marposs_values \/ MarpossStored(x))
            \/ MarpossStored(x) /\ (x \in DOMAIN kogame_values \/ KogameStored(x)) )
       => ( /\ Appended(x)
            /\ x \notin DOMAIN marposs_values'
            /\ x \notin DOMAIN kogame_values' )]_vars

\* C2: key 0 is never in a pending map and no record is for ID 0; a poll
\* that reads 0 for a station stores nothing for that station and leaves its
\* last-seen ID alone, and a 0 in the Kogame register (the one the pairing
\* test reads) pops nothing and appends nothing.
C2_ZeroIgnored ==
  /\ [](/\ 0 \notin DOMAIN marposs_values
        /\ 0 \notin DOMAIN kogame_values
        /\ \A i \in 1..Len(emitted) : emitted[i] # 0)
  /\ [][(pc \in {"startup", "loop"} /\ ReadOk(registers')) =>
          /\ MarpossReg(registers') = 0 =>
               /\ \A x \in DOMAIN marposs_values' :
                    x \in DOMAIN marposs_values /\ marposs_values'[x] = marposs_values[x]
               /\ pc = "loop" => last_marposs_id' = last_marposs_id
          /\ KogameReg(registers') = 0 =>
               /\ kogame_values' = kogame_values
               /\ pc = "loop" => last_kogame_id' = last_kogame_id
               /\ DOMAIN marposs_values \subseteq DOMAIN marposs_values'
               /\ result_file' = result_file]_vars

\* C2 witness: the loop has polled 0 from both registers while a Marposs
\* result was pending.
C2_Witness ==
  /\ pc = "loop" /\ ReadOk(registers)
  /\ MarpossReg(registers) = 0 /\ KogameReg(registers) = 0
  /\ last_marposs_id # 0 /\ marposs_values # EmptyDict

\* C3 (as claimed): at the end of every pass no part ID is a key of both
\* pending maps.
C3_NoIdInBothMaps ==
  pc = "loop" => (DOMAIN marposs_values) \cap (DOMAIN kogame_values) = {}

\* C4: while a result for x is pending at one station and the other
\* station's register does not show x, every pass keeps the entry and
\* appends no record for x (for a Kogame entry: while Marposs has no entry
\* for x either); and a pass in which neither ID changed and the Kogame ID
\* is no key of marposs_values leaves the process running with its state
\* as it was.
C4_UnmatchedPersists ==
  [][(pc = "loop" /\ ReadOk(registers')) =>
       /\ \A x \in NonZeroIds :
            /\ (x \in DOMAIN marposs_values /\ KogameReg(registers') # x) =>
                 (x \in DOMAIN marposs_values' /\ ~Appended(x))
            /\ ( /\ x \in DOMAIN kogame_values /\ x \notin DOMAIN marposs_values
                 /\ MarpossReg(registers') # x ) =>
                 (x \in DOMAIN kogame_values' /\ ~Appended(x))
       /\ ( /\ ~IdChanged(MarpossReg(registers'), last_marposs_id)
            /\ ~IdChanged(KogameReg(registers'), last_kogame_id)
            /\ KogameReg(registers') \notin DOMAIN marposs_values ) =>
            (pc' = "loop" /\ UNCHANGED loop_vars)]_vars

\* C4 witness: Marposs holds a pending result for 5 that Kogame never
\* reported, after a record for another part was written.
C4_Witness ==
  /\ pc = "loop" /\ 5 \in DOMAIN marposs_values /\ 5 \notin DOMAIN kogame_values
  /\ last_kogame_id # 5 /\ emitted = <<41>>

\* C5 (as claimed): a pass whose register read fails is skipped, the loop
\* going on with its state unchanged.
C5_ReadFailureSkipped ==
  [][(pc = "loop" /\ ~ReadOk(registers')) =>
       (pc' = "loop" /\ UNCHANGED loop_vars)]_vars

\* C6 (as claimed): a pass in which the locator returned None for a station
\* whose ID changed, or in which the tail read failed, leaves the loop
\* running, with no entry stored for the ID and the last-seen ID unchanged.
C6_FileNotReadyRetried ==
  [][( /\ pc = "loop" /\ ReadOk(registers')
       /\ \/ IdChanged(MarpossReg(registers'), last_marposs_id)
               /\ marposs_latest_file' = None
          \/ IdChanged(KogameReg(registers'), last_kogame_id)
               /\ kogame_latest_file' = None
          \/ raised' = "OSError" )
       => pc' = "loop"]_vars

\* C7: in the scenario (last-seen IDs 6 and 5 in either assignment, empty
\* pending maps, one one-line .csv file per station directory, each register
\* staying or moving to 41) the loop keeps running, the log is empty until a
\* pass has read 41 from both registers, and from the end of that pass on it
\* holds exactly one row: the timestamp, the fields of the Kogame line and of
\* the Marposs line (decimal point as comma, comma as separator) and the
\* two file basenames.
C7_ScenarioRow ==
  /\ pc = "loop"
  /\ IF MarpossRegister(registers) = 41 /\ KogameRegister(registers) = 41
       THEN /\ Len(result_file) = 1
            /\ \E i \in 1..ScenarioFiles, j \in 1..ScenarioFiles, now \in Clock :
                 result_file[1] =
                   <<now, <<Digit(j)>>, <<"P">>, <<Digit(i), ",", "5">>, <<"A">>,
                     ScenarioName(KogameDir, j), ScenarioName(MarpossDir, i)>>
       ELSE result_file = <<>>

\* C7 witness: both stations were seen at 41, the row is written and both
\* pending entries are gone.
C7_Witness ==
  /\ Len(result_file) = 1 /\ last_marposs_id = 41 /\ last_kogame_id = 41
  /\ marposs_values = EmptyDict /\ kogame_values = EmptyDict

\* C8: a pass that pops the two entries of the Kogame ID either appends the
\* row and goes on, or ends the process with the IOError of
\* save_results_to_csv and result.csv as it was; it never goes on without
\* the row. A process that ended takes no further step.
C8_SinkFailureFatal ==
  /\ [][( /\ pc = "loop" /\ ReadOk(registers')
          /\ \/ KogameReg(registers') \in DOMAIN marposs_values
             \/ MarpossStored(KogameReg(registers'))
          /\ KogameReg(registers') \notin DOMAIN marposs_values' )
        => \/ pc' = "loop" /\ raised' = "none" /\ Appended(KogameReg(registers'))
           \/ pc' = "crashed" /\ raised' = "IOError" /\ result_file' = result_file]_vars
  /\ [][pc = "crashed" => UNCHANGED vars]_vars

\* C8 witness: the process ended with the IOError of a failed append, a
\* row having been written before.
C8_Witness == pc = "crashed" /\ raised = "IOError" /\ Len(result_file) = 1

\* Startup validation, as the claim states it and as the code does it.
PathsFilled(f) ==
  /\ f.exists
  /\ f.marposs.present /\ f.marposs.value # <<>>
  /\ f.kogame.present /\ f.kogame.value # <<>>
DirectoriesExist(f) == {f.marposs.value, f.kogame.value} \subseteq directories
\* The process has not got past startup: no register read, nothing written.
NotStarted ==
  /\ pc \in {"get_config", "validate_paths", "exited", "crashed"}
  /\ pc = "crashed" => raised = "ValueError"
  /\ registers = Dump(RegText(0), RegText(0))
  /\ result_file = <<>>
\* Once config.ini was found absent the default file is written and the
\* process exits.
Bootstrap ==
  /\ ~config_file.exists => pc = "get_config"
  /\ pc = "exited" => (raised = "SystemExit" /\ config_file = DEFAULT_CONFIG)

NaiveLastLine(content) == LastLine(Strip(content))

\* C10 (as claimed): get_data returns what the naive reference reader
\* returns, for every content.
C10_MatchesNaive ==
  tail_line # Unbound => tail_line.value = NaiveLastLine(tail_file)

\* The pass took the pairing branch of line 222 and popped the Marposs entry
\* of the Kogame ID.
PairingTaken ==
  /\ pc = "loop" /\ ReadOk(registers')
  /\ \/ KogameReg(registers') \in DOMAIN marposs_values
     \/ MarpossStored(KogameReg(registers'))
  /\ KogameReg(registers') \notin DOMAIN marposs_values'

\* C11: every step leaves result.csv as it was or appends exactly one row at
\* its end, the rows before it untouched; a row is appended only by a pass of
\* the main loop that took the pairing branch, one row per pass.
C11_AppendOnly ==
  [][\/ result_file' = result_file
     \/ /\ Len(result_file') = Len(result_file) + 1
        /\ SubSeq(result_file', 1, Len(result_file)) = result_file
        /\ PairingTaken]_vars

\* C11 witness: a second row was appended after a first one, for another part.
C11_Witness ==
  /\ Len(result_file) = 2 /\ emitted[1] # emitted[2]
  /\ result_file[1] # result_file[2]

\* The result line of the file a station variable names.
LineOf(dir, latest) ==
  TailLine((CHOOSE f \in {File1(dir, TRUE), File2(dir)} : f.path = latest.path).content)
\* The line a station contributes to a record for x written by this pass:
\* the one it stored in this pass, else the one that was pending.
MarpossLineFor(x) ==
  IF MarpossStored(x) THEN LineOf(MarpossDir, marposs_latest_file') ELSE marposs_values[x]
KogameLineFor(x) ==
  IF KogameStored(x) THEN LineOf(KogameDir, kogame_latest_file') ELSE kogame_values[x]

\* C12: a pending map holds one line per part ID; a pass in which a station
\* stores a result for x leaves, if x stays pending, the line just read under
\* x, whatever was pending for x before; a pass in which it stores nothing
\* for x leaves a pending line for x as it was; and the record written for x
\* is made of the two lines most recently stored for x.
C12_LastWriteWins ==
  /\ [](\A x \in DOMAIN marposs_values : \A i \in 1..Len(marposs_values[x]) :
           marposs_values[x][i] # "\n")
  /\ [](\A x \in DOMAIN kogame_values : \A i \in 1..Len(kogame_values[x]) :
           kogame_values[x][i] # "\n")
  /\ [][(pc = "loop" /\ ReadOk(registers')) =>
          \A x \in NonZeroIds :
            /\ x \in DOMAIN marposs_values' =>
                 marposs_values'[x] = MarpossLineFor(x)
            /\ x \in DOMAIN kogame_values' =>
                 kogame_values'[x] = KogameLineFor(x)
            /\ Appended(x) =>
                 \E now \in Clock :
                 \E result \in {ComposeResult(KogameLineFor(x), MarpossLineFor(x),
                                              kogame_latest_file', marposs_latest_file', now)} :
                   result_file'[Len(result_file')] = Split(result, ";")]_vars

\* C12 witness: the first record for part 5 is written with line 2 of both
\* stations, the station whose line 1 was pending for 5 when the loop was
\* entered having stored a second result for 5 before the pairing.
C12_Witness ==
  /\ emitted = <<5>>
  /\ \E now \in Clock :
       result_file[1] = <<now, <<"4">>, <<"F">>, <<"2", ",", "5">>, <<"B">>,
                          basename(File2(KogameDir).path),
                          basename(File2(MarpossDir).path)>>

\* A file name that ends in .csv, in any case of the letters.
CsvName(name) ==
  /\ Len(name) >= 4
  /\ name[Len(name) - 3] = "."
  /\ name[Len(name) - 2] \in {"c", "C"}
  /\ name[Len(name) - 1] \in {"s", "S"}
  /\ name[Len(name)] \in {"v", "V"}
\* The positions of the .csv files of a directory, and of those among them
\* with the greatest modification time.
CsvFiles(tree) == {i \in 1..Len(tree) : CsvName(basename(tree[i].path))}
LatestCsvFiles(tree) ==
  {i \in CsvFiles(tree) : \A j \in CsvFiles(tree) : tree[i].mtime >= tree[j].mtime}
Walked == pc = "returned" /\ walk_result # Unbound

Tie == Cardinality(LatestCsvFiles(walk_tree)) > 1

\* C14 (as claimed): of several .csv files that share the greatest
\* modification time, the one met last in the traversal is returned.
C14_LastOfEqualWins ==
  (Walked /\ Tie) =>
    walk_result = PathOf(walk_tree[CHOOSE i \in LatestCsvFiles(walk_tree) :
                             \A j \in LatestCsvFiles(walk_tree) : j <= i].path)

\* C14 (amended): of several .csv files that share the greatest
\* modification time, the one met first in the traversal is returned.
C14_FirstOfEqualWins ==
  (Walked /\ Tie) =>
    walk_result = PathOf(walk_tree[CHOOSE i \in LatestCsvFiles(walk_tree) :
                             \A j \in LatestCsvFiles(walk_tree) : i <= j].path)

\* C14 witness: three .csv files share the greatest modification time and
\* the call has returned.
C14_Witness ==
  Walked /\ Cardinality(LatestCsvFiles(walk_tree)) = 3 /\ walk_tree[1].mtime = 2

\* The reformatting the claim describes, character by character: "," becomes
\* the separator ";", "." becomes ",", anything else stays.
Reformatted(line) ==
  [i \in 1..Len(line) |->
     IF line[i] = "," THEN ";" ELSE IF line[i] = "." THEN "," ELSE line[i]]
\* The raw line of the file a station variable names, the file being named
\* after its line.
RawLineOf(latest) ==
  CHOOSE line \in RawLines : RawName(line) = basename(latest.path)
\* The raw line a station contributes to the record written by this pass.
RawMarpossLine(x) ==
  IF MarpossStored(x) THEN RawLineOf(marposs_latest_file') ELSE marposs_values[x]
RawKogameLine(x) ==
  IF KogameStored(x) THEN RawLineOf(kogame_latest_file') ELSE kogame_values[x]
Sample1 == <<"1", "2", ".", "5", ",", "O", "K">>
Sample2 == <<"3", ",", "P", "A", "S", "S">>

\* C15: the row written at a pairing is the timestamp, then the Kogame line,
\* ";" and the Marposs line with every "," turned into ";" and every "."
\* turned into ",", then the two file names, split on ";"; for the raw lines
\* "12.5,OK" and "3,PASS" (either station having either) the row holds 12,5
\* and OK and 3 and PASS as fields of their own.
C15_Reformatting ==
  /\ [][(pc = "loop" /\ Appended(41)) =>
          \E now \in Clock :
          \E kogame_line \in {RawKogameLine(41)}, marposs_line \in {RawMarpossLine(41)} :
          \E row \in {now \o <<";">>
                          \o Reformatted(kogame_line \o <<";">> \o marposs_line)
                          \o <<";">> \o basename(kogame_latest_file'.path)
                          \o <<";">> \o basename(marposs_latest_file'.path)} :
            result_file'[Len(result_file')] = Split(row, ";")]_vars
  /\ [](\A r \in 1..Len(result_file) : \A now \in Clock :
          LET row == result_file[r]
              names == SubSeq(row, Len(row) - 1, Len(row))
          IN /\ names = <<RawName(Sample2), RawName(Sample1)>> =>
                  row = <<now, <<"3">>, <<"P", "A", "S", "S">>,
                          <<"1", "2", ",", "5">>, <<"O", "K">>>> \o names
             /\ names = <<RawName(Sample1), RawName(Sample2)>> =>
                  row = <<now, <<"1", "2", ",", "5">>, <<"O", "K">>,
                          <<"3">>, <<"P", "A", "S", "S">>>> \o names)

\* C15 witness: the record of the raw lines "12.5,OK" (Marposs) and "3,PASS"
\* (Kogame) is written.
C15_Witness ==
  /\ Len(result_file) = 1
  /\ SubSeq(result_file[1], Len(result_file[1]) - 1, Len(result_file[1]))
       = <<RawName(Sample2), RawName(Sample1)>>
  /\ Len(result_file[1]) = 7

\* C15 witness of the general case: a record of raw lines that hold ".",
\* "," and ";" is written.
C15_WitnessMixed ==
  /\ Len(result_file) = 1
  /\ SubSeq(result_file[1], Len(result_file[1]) - 1, Len(result_file[1]))
       = <<RawName(<<".", ",">>), RawName(<<";", ".">>)>>

\* C16 (as claimed): in the record written for x the Marposs file name is
\* that of the file the paired Marposs line was read from, and the Kogame
\* file name that of the file the paired Kogame line was read from.
C16_NamesOfPairedFiles ==
  [][\A x \in NonZeroIds :
       (pc = "loop" /\ Appended(x)) =>
         LET row == result_file'[Len(result_file')]
         IN \E kogame_file \in {File1(KogameDir, TRUE), File2(KogameDir)},
               marposs_file \in {File1(MarpossDir, TRUE), File2(MarpossDir)} :
              /\ TailLine(kogame_file.content) = KogameLineFor(x)
              /\ TailLine(marposs_file.content) = MarpossLineFor(x)
              /\ row[Len(row) - 1] = basename(kogame_file.path)
              /\ row[Len(row)] = basename(marposs_file.path)]_vars

\* The pass got to line 222 and found the Kogame ID a key of marposs_values.
PairingReached ==
  /\ pc = "loop" /\ ReadOk(registers')
  /\ raised' \notin {"TypeError", "OSError"}
  /\ \/ KogameReg(registers') \in DOMAIN marposs_values
     \/ MarpossStored(KogameReg(registers'))

\* C17 (as claimed): whenever the pairing branch is taken the Kogame ID is a
\* key of kogame_values too, so that neither pop raises KeyError.
C17_BothPopsSucceed ==
  [][PairingReached =>
       /\ \/ KogameReg(registers') \in DOMAIN kogame_values
          \/ KogameStored(KogameReg(registers'))
       /\ raised' # "KeyError"]_vars

\* C18: a pass appends a row only as the record of the ID x the Kogame
\* register shows, with a Kogame line and a Marposs line both stored under
\* x (in this pass or pending from an earlier one); the row is made of
\* exactly these two lines, and once it is written x is a key of neither
\* pending map, so that neither line can go into another record.
C18_OneLinePerStationSameId ==
  [][(pc = "loop" /\ Len(result_file') > Len(result_file)) =>
       \E x \in NonZeroIds :
         /\ Appended(x)
         /\ x = KogameReg(registers')
         /\ x \in DOMAIN marposs_values \/ MarpossStored(x)
         /\ x \in DOMAIN kogame_values \/ KogameStored(x)
         /\ \E now \in Clock :
            \E kogame_line \in {KogameLineFor(x)}, marposs_line \in {MarpossLineFor(x)} :
            \E result \in {ComposeResult(kogame_line, marposs_line, kogame_latest_file',
                                         marposs_latest_file', now)} :
              result_file'[Len(result_file')] = Split(result, ";")
         /\ x \notin DOMAIN marposs_values'
         /\ x \notin DOMAIN kogame_values'
         /\ \A y \in NonZeroIds \ {x} :
              /\ y \in DOMAIN marposs_values => y \in DOMAIN marposs_values'
              /\ y \in DOMAIN kogame_values => y \in DOMAIN kogame_values']_vars

\* C18 witness: part 41 and then part 5 were paired, each from its own two
\* lines, and nothing is pending.
C18_Witness ==
  /\ pc = "loop" /\ emitted = <<41, 5>>
  /\ marposs_values = EmptyDict /\ kogame_values = EmptyDict

\* The pass stored an entry under x at the station: the line of the file
\* just read is pending under x, or the pairing of this pass popped it.
MarpossEntryOf(x) ==
  /\ marposs_latest_file'.tag = "path"
  /\ \/ x \in DOMAIN marposs_values'
          /\ marposs_values'[x] = LineOf(MarpossDir, marposs_latest_file')
     \/ x \notin DOMAIN marposs_values' /\ KogameReg(registers') = x
KogameEntryOf(x) ==
  /\ kogame_latest_file'.tag = "path"
  /\ \/ x \in DOMAIN kogame_values'
          /\ kogame_values'[x] = LineOf(KogameDir, kogame_latest_file')
     \/ x \notin DOMAIN kogame_values' /\ KogameReg(registers') = x
                                       /\ x \notin DOMAIN marposs_values'
\* The pending entries of d are those of e, unchanged.
NothingStored(d, e) == DOMAIN d \subseteq DOMAIN e /\ \A x \in DOMAIN d : d[x] = e[x]

\* C19: in the main loop a last-seen ID changes only in a pass in which its
\* station stores an entry, to the non-zero ID the register shows, the key
\* of that entry; a pass that reads 0 or the last-seen ID from a register
\* leaves the station's last-seen ID as it was and stores nothing for the
\* station, so that a last-seen ID is never set to 0 and x, 0, x stores x
\* once; and the startup polls adopt the IDs they read without storing
\* anything.
C19_LastSeenFollowsStores ==
  /\ [][pc = "loop" =>
          /\ last_marposs_id' # last_marposs_id =>
               /\ ReadOk(registers')
               /\ last_marposs_id' = MarpossReg(registers')
               /\ last_marposs_id' # 0
               /\ MarpossEntryOf(last_marposs_id')
          /\ last_kogame_id' # last_kogame_id =>
               /\ ReadOk(registers')
               /\ last_kogame_id' = KogameReg(registers')
               /\ last_kogame_id' # 0
               /\ KogameEntryOf(last_kogame_id')
          /\ (ReadOk(registers') /\ MarpossReg(registers') \in {0, last_marposs_id}) =>
               /\ last_marposs_id' = last_marposs_id
               /\ NothingStored(marposs_values', marposs_values)
          /\ (ReadOk(registers') /\ KogameReg(registers') \in {0, last_kogame_id}) =>
               /\ last_kogame_id' = last_kogame_id
               /\ NothingStored(kogame_values', kogame_values)]_vars
  /\ [][pc = "startup" =>
          /\ ReadOk(registers') =>
               /\ last_marposs_id' = MarpossReg(registers')
               /\ last_kogame_id' = KogameReg(registers')
          /\ marposs_values' = EmptyDict /\ kogame_values' = EmptyDict
          /\ marposs_latest_file' = Unbound /\ kogame_latest_file' = Unbound]_vars

\* C19 witness: after part 5 was paired a pass read 5 again from the Marposs
\* register and 0 from the Kogame register; both last-seen IDs are still 5
\* and no second entry was stored.
C19_Witness ==
  /\ pc = "loop" /\ emitted = <<5>> /\ ReadOk(registers)
  /\ MarpossReg(registers) = 5 /\ KogameReg(registers) = 0
  /\ last_marposs_id = 5 /\ last_kogame_id = 5
  /\ marposs_values = EmptyDict /\ kogame_values = EmptyDict

====
